---- MODULE Spec2Model ----
(***************************************************************************)
(* Telemetry aggregation of src/project/lte-voip-simulation.cc: the        *)
(* time-0 flow mapping event, PeriodicStatsUpdate and the three handover   *)
(* trace callbacks, run by the simulator's single-threaded event loop.     *)
(*                                                                         *)
(* Numbers.  uint64_t values are kept exact modulo 2^64 and double values  *)
(* are kept as exact fractions (IEEE rounding is not modelled; division by *)
(* zero gives the IEEE infinities and NaN).  Because 2^64 does not fit the *)
(* model checker's integers, an integer is written as a polynomial in      *)
(* B = 2^64 with small coefficients: <<c0, c1, ...>> is c0 + c1*B + ...    *)
(* Simulated time (ns3::Time, delaySum, jitterSum) is counted in           *)
(* milliseconds, g_currentTime and the configuration in seconds.           *)
(***************************************************************************)
EXTENDS Integers, Sequences, FiniteSets, TLC

----------------------------------------------------------------------------
(* Integers as polynomials in B = 2^64, without trailing zero coefficients *)

RECURSIVE PNorm(_)
PNorm(p) ==
    IF p = <<>> THEN <<>>
    ELSE IF p[Len(p)] = 0 THEN PNorm(SubSeq(p, 1, Len(p) - 1))
    ELSE p

PCoef(p, i) ==
    IF i <= Len(p) THEN p[i] ELSE 0

RECURSIVE PAddCoefs(_, _)
PAddCoefs(p, q) ==
    IF p = <<>> THEN q
    ELSE IF q = <<>> THEN p
    ELSE <<p[1] + q[1]>> \o PAddCoefs(Tail(p), Tail(q))

PAdd(p, q) ==
    IF p = <<>> THEN q
    ELSE IF q = <<>> THEN p
    ELSE PNorm(PAddCoefs(p, q))

RECURSIVE PScale(_, _)
PScale(c, p) ==
    IF c = 0 \/ p = <<>> THEN <<>>
    ELSE IF c = 1 THEN p
    ELSE <<c * p[1]>> \o PScale(c, Tail(p))

PNeg(p) ==
    PScale(-1, p)

PSub(p, q) ==
    PAdd(p, PNeg(q))

PShift(p) ==
    IF p = <<>> THEN <<>> ELSE <<0>> \o p

RECURSIVE PMul(_, _)
PMul(p, q) ==
    IF p = <<>> \/ q = <<>> THEN <<>>
    ELSE IF p = <<1>> THEN q
    ELSE IF q = <<1>> THEN p
    ELSE IF Len(p) = 1 THEN PScale(p[1], q)
    ELSE PAdd(PScale(p[1], q), PShift(PMul(Tail(p), q)))

PSign(p) ==
    IF p = <<>> THEN 0
    ELSE IF p[Len(p)] > 0 THEN 1 ELSE -1

PInt(n) ==
    IF n = 0 THEN <<>> ELSE <<n>>

----------------------------------------------------------------------------
(* uint64_t: the values 0 .. B-1, as <<>>, <<c>> with c > 0, or <<-c, 1>>  *)
(* (that is B - c) with c > 0                                              *)

U64Wrap(p) ==
    IF PCoef(p, 1) >= 0 THEN PInt(PCoef(p, 1)) ELSE <<PCoef(p, 1), 1>>

U64Sub(a, b) ==
    U64Wrap(PSub(a, b))

U64Add(a, b) ==
    U64Wrap(PAdd(a, b))

----------------------------------------------------------------------------
(* double: a fraction num/den of two integers with den > 0; den = 0 stands *)
(* for +infinity (num > 0), -infinity (num < 0) and NaN (num = 0)          *)

RECURSIVE Gcd(_, _)
Gcd(a, b) ==
    IF b = 0 THEN a ELSE Gcd(b, a % b)

Abs(n) ==
    IF n < 0 THEN -n ELSE n

RECURSIVE PContent(_)
PContent(p) ==
    IF p = <<>> THEN 0 ELSE Gcd(Abs(p[1]), PContent(Tail(p)))

RECURSIVE PDivide(_, _)
PDivide(p, g) ==
    IF p = <<>> THEN <<>> ELSE <<p[1] \div g>> \o PDivide(Tail(p), g)

(* the same fraction in lowest terms of its coefficients *)
DReduce(n, d) ==
    LET g == Gcd(PContent(n), PContent(d))
    IN  [num |-> PDivide(n, g), den |-> PDivide(d, g)]

DMake(n, d) ==
    IF d = <<1>> THEN [num |-> n, den |-> d]
    ELSE IF d = <<>> THEN [num |-> PInt(PSign(n)), den |-> <<>>]
    ELSE IF n = <<>> THEN [num |-> <<>>, den |-> <<1>>]
    ELSE IF PSign(d) < 0 THEN DReduce(PNeg(n), PNeg(d))
    ELSE DReduce(n, d)

DInt(n) ==
    [num |-> PInt(n), den |-> <<1>>]

DZero ==
    DInt(0)

DNaN ==
    [num |-> <<>>, den |-> <<>>]

DFromU64(u) ==
    [num |-> u, den |-> <<1>>]

DIsFinite(x) ==
    x.den # <<>>

DIsNaN(x) ==
    x = DNaN

DSign(x) ==
    PSign(x.num)

DAdd(x, y) ==
    IF x = DZero THEN y
    ELSE IF y = DZero THEN x
    ELSE IF DIsNaN(x) \/ DIsNaN(y) THEN DNaN
    ELSE IF ~DIsFinite(x) /\ ~DIsFinite(y) THEN (IF x = y THEN x ELSE DNaN)
    ELSE IF ~DIsFinite(x) THEN x
    ELSE IF ~DIsFinite(y) THEN y
    ELSE DMake(PAdd(PMul(x.num, y.den), PMul(y.num, x.den)), PMul(x.den, y.den))

DMul(x, y) ==
    IF DIsNaN(x) \/ DIsNaN(y) THEN DNaN
    ELSE DMake(PMul(x.num, y.num), PMul(x.den, y.den))

DDiv(x, y) ==
    IF DIsNaN(x) \/ DIsNaN(y) THEN DNaN
    ELSE IF ~DIsFinite(x) /\ ~DIsFinite(y) THEN DNaN
    ELSE IF ~DIsFinite(y) THEN DZero
    ELSE IF ~DIsFinite(x) THEN (IF PSign(y.num) < 0 THEN DMake(PNeg(x.num), <<>>) ELSE x)
    ELSE DMake(PMul(x.num, y.den), PMul(x.den, y.num))

DEq(x, y) ==
    /\ ~DIsNaN(x)
    /\ ~DIsNaN(y)
    /\ IF DIsFinite(x) /\ DIsFinite(y)
       THEN PMul(x.num, y.den) = PMul(y.num, x.den)
       ELSE x = y

DGeqZero(x) ==
    ~DIsNaN(x) /\ DSign(x) >= 0

----------------------------------------------------------------------------
(* Configuration: SimulationParameters and the port base of                *)
(* InstallVoipApplications                                                 *)

numUe == 5

basePort == 5000

UDP == 17

SimTime == 3

StatsIntervals == {1, 2}

MaxFlows == 2

MaxHandovers == 2

UeIndexes == 0..(numUe - 1)

(* ueAddresses: the addresses the EPC helper assigns to the UEs *)
ueAddresses == [i \in UeIndexes |-> <<7, 0, 0, 2 + i>>]

remoteHostAddr == <<1, 0, 0, 2>>

otherAddr == <<14, 0, 0, 6>>

(* The flows the classifier can report, classifier->FindFlow(flowId) *)
FiveTuple(src, sport, dst, dport, proto) ==
    [sourceAddress |-> src, sourcePort |-> sport, destinationAddress |-> dst,
     destinationPort |-> dport, protocol |-> proto]

FindFlow ==
    <<FiveTuple(ueAddresses[3], 49153, remoteHostAddr, basePort + 3, UDP),
      FiveTuple(ueAddresses[3], 49154, remoteHostAddr, basePort + 3, UDP),
      FiveTuple(ueAddresses[0], 49153, remoteHostAddr, basePort, UDP),
      FiveTuple(ueAddresses[1], 49153, remoteHostAddr, basePort + 1, 6),
      FiveTuple(remoteHostAddr, basePort + 2, ueAddresses[2], 49153, UDP),
      FiveTuple(otherAddr, 49153, remoteHostAddr, basePort + numUe, UDP)>>

FlowIds == DOMAIN FindFlow

(* FlowMonitor::FlowStats, the fields the program reads; times in ms *)
FlowStats(rxB, txP, rxP, delay, jitter) ==
    [rxBytes |-> rxB, txPackets |-> txP, rxPackets |-> rxP,
     delaySum |-> delay, jitterSum |-> jitter]

(* the counters a flow can show at an update; at time 0 they are all 0 *)
StatsValues ==
    {FlowStats(1000, 2, 1, 20, 0),
     FlowStats(2000, 4, 3, 70, 6)}

NoEvent == -1

----------------------------------------------------------------------------
VARIABLES
    params,                 \* SimulationParameters: numUe, simTime, statsInterval
    stats,                  \* the last flowMonitor->GetFlowStats(): FlowId -> FlowStats
    g_currentTime,
    g_timePlot,
    g_ueThroughputPlot,
    g_uePacketLossPlot,
    g_ueJitterPlot,
    g_avgLatencyPlot,
    g_avgThroughputPlot,
    g_previousRxBytes,
    g_previousDelaySum,
    g_previousJitterSum,
    g_previousRxPackets,
    g_flowIdToUeIndex,
    g_handoverStartCount,
    g_handoverSuccessCount,
    g_handoverFailureCount,
    g_handoverStartPlot,
    g_handoverSuccessPlot,
    g_handoverFailurePlot,
    mappingPending,         \* the event scheduled at Seconds(0.0) has not run
    statsAt,                \* time of the scheduled PeriodicStatsUpdate, or NoEvent
    delivered,              \* number of handover callbacks delivered so far
    lastUpdate,             \* what the last PeriodicStatsUpdate read and computed
    attributedTo,           \* FlowId -> the set of outcomes of its attribution so far
    enbPosition,            \* eNB index -> position (ConstantPositionMobilityModel)
    uePosition,             \* UE index -> position of the UE's mobility model
    attachment,             \* UE index -> index of the eNB the UE is attached to
    handoverRequests,       \* the requests the last handover check issued
    evaluated,              \* the positions and attachment that check read
    lastCallback            \* the last handover trace callback and its arguments

plots ==
    <<g_timePlot, g_ueThroughputPlot, g_uePacketLossPlot, g_ueJitterPlot,
      g_avgLatencyPlot, g_avgThroughputPlot>>

previous ==
    <<g_previousRxBytes, g_previousDelaySum, g_previousJitterSum, g_previousRxPackets>>

handoverCounts ==
    <<g_handoverStartCount, g_handoverSuccessCount, g_handoverFailureCount>>

handoverPlots ==
    <<g_handoverStartPlot, g_handoverSuccessPlot, g_handoverFailurePlot>>

mobility ==
    <<enbPosition, uePosition, attachment, handoverRequests, evaluated>>

vars ==
    <<params, stats, g_currentTime, plots, previous, g_flowIdToUeIndex,
      handoverCounts, handoverPlots, mappingPending, statsAt, delivered,
      lastUpdate, attributedTo, mobility, lastCallback>>

----------------------------------------------------------------------------
(* std::map: operator[] on a missing key inserts the value-initialised     *)
(* element                                                                 *)

MapGet(m, k, default) ==
    IF k \in DOMAIN m THEN m[k] ELSE default

MapPut(m, k, v) ==
    [x \in (DOMAIN m) \cup {k} |-> IF x = k THEN v ELSE m[x]]

EmptyMap ==
    [x \in {} |-> 0]

SetMin(S) ==
    CHOOSE x \in S : \A y \in S : x <= y

(* Time::GetSeconds() of a time counted in milliseconds *)
GetSeconds(ms) ==
    DMake(PInt(ms), <<1000>>)

NoUe == -1

----------------------------------------------------------------------------
(* The body of the loop of PeriodicStatsUpdate for one flow.  acc holds    *)
(* the locals of the function and the four g_previous maps; seen and       *)
(* deltas record the loop's locals ueIndex, deltaBytes, deltaPackets,      *)
(* deltaDelaySum and deltaJitterSum for the properties below.              *)

(* the upper end of the port range taken inclusive *)
InPortRangeInclusive(destPort, n) ==
    destPort >= basePort /\ destPort <= (basePort + n)

InPortRange(destPort, n) ==
    destPort >= basePort /\ destPort < (basePort + n)

(* UE indexes counted from 1 *)
UeIndexOfOneBased(t, p) ==
    IF t.protocol # UDP THEN NoUe
    ELSE IF InPortRangeInclusive(t.destinationPort, p.numUe - 1)
    THEN t.destinationPort - basePort + 1
    ELSE NoUe

(* with a fallback to the address table for ports outside the range *)
UeIndexOfWithAddress(t, p) ==
    IF t.protocol # UDP THEN NoUe
    ELSE IF t.destinationPort >= basePort /\ t.destinationPort < (basePort + p.numUe)
    THEN t.destinationPort - basePort
    ELSE IF \E u \in UeIndexes :
                 ueAddresses[u] \in {t.sourceAddress, t.destinationAddress}
    THEN CHOOSE u \in UeIndexes :
             ueAddresses[u] \in {t.sourceAddress, t.destinationAddress}
    ELSE NoUe

(* the UE taken from the destination port whatever the protocol *)
UeIndexOfAnyProtocol(t, p) ==
    IF InPortRange(t.destinationPort, p.numUe) THEN t.destinationPort - basePort
    ELSE NoUe

(* Consider only UDP flows; identify the UE based on destination port *)
UeIndexOf(t, p) ==
    IF t.protocol # UDP THEN NoUe
    ELSE IF InPortRange(t.destinationPort, p.numUe) THEN t.destinationPort - basePort
    ELSE NoUe

(* the difference taken in a signed type *)
DeltaBytesSigned(currentRxBytes, previousRxBytes) ==
    PSub(PInt(currentRxBytes), PInt(previousRxBytes))

(* the cumulative count taken for the bytes of the interval *)
DeltaBytesCumulative(currentRxBytes, previousRxBytes) ==
    PInt(currentRxBytes)

DeltaBytes(currentRxBytes, previousRxBytes) ==
    U64Sub(PInt(currentRxBytes), PInt(previousRxBytes))

(* a first observation only sets the baseline *)
FlowDeltasBaseline(acc, f, s) ==
    IF f \notin DOMAIN acc.prevRxBytes
    THEN [bytes |-> <<>>, packets |-> <<>>, delaySum |-> 0, jitterSum |-> 0]
    ELSE [bytes     |-> U64Sub(PInt(s.rxBytes), PInt(acc.prevRxBytes[f])),
          packets   |-> U64Sub(PInt(s.rxPackets), PInt(MapGet(acc.prevRxPackets, f, 0))),
          delaySum  |-> s.delaySum - MapGet(acc.prevDelaySum, f, 0),
          jitterSum |-> s.jitterSum - MapGet(acc.prevJitterSum, f, 0)]

(* the four deltas against the g_previous maps; operator[] reads 0 for a   *)
(* flow that has no entry yet                                              *)
FlowDeltas(acc, f, s) ==
    [bytes     |-> DeltaBytes(s.rxBytes, MapGet(acc.prevRxBytes, f, 0)),
     packets   |-> U64Sub(PInt(s.rxPackets), PInt(MapGet(acc.prevRxPackets, f, 0))),
     delaySum  |-> s.delaySum - MapGet(acc.prevDelaySum, f, 0),
     jitterSum |-> s.jitterSum - MapGet(acc.prevJitterSum, f, 0)]

(* bytes taken for bits *)
FlowThroughputKBps(deltaBytes, statsInterval) ==
    DDiv(DDiv(DFromU64(deltaBytes), DInt(1000)), DInt(statsInterval))

FlowThroughputKbps(deltaBytes, statsInterval) ==
    DDiv(DDiv(DMul(DFromU64(deltaBytes), DInt(8)), DInt(1000)), DInt(statsInterval))

LossRate(txPkts, rxPkts) ==
    IF txPkts > 0
    THEN DMul(DDiv(DFromU64(U64Sub(PInt(txPkts), PInt(rxPkts))), DInt(txPkts)), DInt(100))
    ELSE DZero

(* the mean left in seconds *)
AvgFlowLatencySeconds(deltaDelaySum, deltaPackets) ==
    DDiv(GetSeconds(deltaDelaySum), DFromU64(deltaPackets))

AvgFlowLatencyMs(deltaDelaySum, deltaPackets) ==
    DMul(DDiv(GetSeconds(deltaDelaySum), DFromU64(deltaPackets)), DInt(1000))

FlowJitterMs(deltaJitterSum, deltaPackets) ==
    IF PSign(PSub(deltaPackets, <<1>>)) > 0
    THEN DMul(DDiv(GetSeconds(deltaJitterSum), DFromU64(PSub(deltaPackets, <<1>>))),
              DInt(1000))
    ELSE DZero

(* = in place of += *)
AccumulateThroughputLast(old, flowThroughputKbps) ==
    flowThroughputKbps

AccumulateThroughput(old, flowThroughputKbps) ==
    DAdd(old, flowThroughputKbps)

(* the stored receivedBytes are never refreshed *)
RememberRxBytesOnce(prevRxBytes, f, currentRxBytes) ==
    IF f \in DOMAIN prevRxBytes THEN prevRxBytes ELSE MapPut(prevRxBytes, f, 0)

RememberRxBytes(prevRxBytes, f, currentRxBytes) ==
    MapPut(prevRxBytes, f, currentRxBytes)

(* a delay sum that went down is not stored *)
RememberDelaySumUnlessLower(prevDelaySum, f, currentDelaySum) ==
    IF f \in DOMAIN prevDelaySum /\ currentDelaySum < prevDelaySum[f]
    THEN prevDelaySum
    ELSE MapPut(prevDelaySum, f, currentDelaySum)

(* g_previousDelaySum[iter.first] = currentDelaySum *)
RememberDelaySum(prevDelaySum, f, currentDelaySum) ==
    MapPut(prevDelaySum, f, currentDelaySum)

(* the statements under the port test, for a flow of UE ueIndex with       *)
(* deltas d                                                                *)
AccountFlow(acc, f, ueIndex, d, s, p) ==
    LET hasPackets == PSign(d.packets) > 0
    IN  [acc EXCEPT
            !.prevRxBytes = RememberRxBytes(@, f, s.rxBytes),
            !.ueThroughputKbps[ueIndex] =
                AccumulateThroughput(@, FlowThroughputKbps(d.bytes, p.statsInterval)),
            !.uePacketLossRate[ueIndex] = LossRate(s.txPackets, s.rxPackets),
            !.prevRxPackets = MapPut(@, f, s.rxPackets),
            !.prevDelaySum = RememberDelaySum(@, f, s.delaySum),
            !.totalLatencySum =
                IF hasPackets
                THEN DAdd(@, DMul(AvgFlowLatencyMs(d.delaySum, d.packets),
                                  DFromU64(d.packets)))
                ELSE @,
            !.totalRxPackets = IF hasPackets THEN U64Add(@, d.packets) ELSE @,
            !.prevJitterSum = MapPut(@, f, s.jitterSum),
            !.ueJitterMs[ueIndex] = DAdd(@, FlowJitterMs(d.jitterSum, d.packets)),
            !.seen = MapPut(@, f, ueIndex),
            !.deltas = MapPut(@, f, d)]

(* a UE that already has throughput in this update takes no further flow *)
ProcessFlowOnePerUe(acc, f, st, p) ==
    LET ueIndex == UeIndexOf(FindFlow[f], p)
    IN  IF ueIndex = NoUe
        THEN [acc EXCEPT !.seen = MapPut(@, f, NoUe)]
        ELSE IF acc.ueThroughputKbps[ueIndex] # DZero
        THEN [acc EXCEPT !.seen = MapPut(@, f, NoUe)]
        ELSE CHOOSE r \in {AccountFlow(acc, f, ueIndex, d, st[f], p) :
                              d \in {FlowDeltas(acc, f, st[f])}} : TRUE

ProcessFlow(acc, f, st, p) ==
    LET ueIndex == UeIndexOf(FindFlow[f], p)
    IN  IF ueIndex = NoUe
        THEN [acc EXCEPT !.seen = MapPut(@, f, NoUe)]
        ELSE CHOOSE r \in {AccountFlow(acc, f, ueIndex, d, st[f], p) :
                              d \in {FlowDeltas(acc, f, st[f])}} : TRUE

(* for (auto& iter : stats): a std::map is walked in ascending FlowId.     *)
(* (The singleton sets bind each intermediate value once.)                 *)
RECURSIVE ProcessFlows(_, _, _, _)
ProcessFlows(acc, todo, st, p) ==
    IF todo = {} THEN acc
    ELSE LET f == SetMin(todo)
         IN  CHOOSE r \in {ProcessFlows(a, todo \ {f}, st, p) :
                               a \in {ProcessFlow(acc, f, st, p)}} : TRUE

RECURSIVE SumThroughput(_, _)
SumThroughput(ueThroughputKbps, n) ==
    IF n = 0 THEN DZero
    ELSE DAdd(SumThroughput(ueThroughputKbps, n - 1), ueThroughputKbps[n - 1])

(* the g_previous maps are rebuilt from the flows of each snapshot *)
StatsLocalsFresh(p) ==
    [ueThroughputKbps |-> [i \in 0..(p.numUe - 1) |-> DZero],
     uePacketLossRate |-> [i \in 0..(p.numUe - 1) |-> DZero],
     ueJitterMs       |-> [i \in 0..(p.numUe - 1) |-> DZero],
     totalLatencySum  |-> DZero,
     totalRxPackets   |-> <<>>,
     prevRxBytes      |-> EmptyMap,
     prevDelaySum     |-> EmptyMap,
     prevJitterSum    |-> EmptyMap,
     prevRxPackets    |-> EmptyMap,
     seen             |-> EmptyMap,
     deltas           |-> EmptyMap]

(* a UE starts every update as one that lost every packet *)
StatsLocalsAllLost(p) ==
    [ueThroughputKbps |-> [i \in 0..(p.numUe - 1) |-> DZero],
     uePacketLossRate |-> [i \in 0..(p.numUe - 1) |-> DInt(100)],
     ueJitterMs       |-> [i \in 0..(p.numUe - 1) |-> DZero],
     totalLatencySum  |-> DZero,
     totalRxPackets   |-> <<>>,
     prevRxBytes      |-> g_previousRxBytes,
     prevDelaySum     |-> g_previousDelaySum,
     prevJitterSum    |-> g_previousJitterSum,
     prevRxPackets    |-> g_previousRxPackets,
     seen             |-> EmptyMap,
     deltas           |-> EmptyMap]

StatsLocals(p) ==
    [ueThroughputKbps |-> [i \in 0..(p.numUe - 1) |-> DZero],
     uePacketLossRate |-> [i \in 0..(p.numUe - 1) |-> DZero],
     ueJitterMs       |-> [i \in 0..(p.numUe - 1) |-> DZero],
     totalLatencySum  |-> DZero,
     totalRxPackets   |-> <<>>,
     prevRxBytes      |-> g_previousRxBytes,
     prevDelaySum     |-> g_previousDelaySum,
     prevJitterSum    |-> g_previousJitterSum,
     prevRxPackets    |-> g_previousRxPackets,
     seen             |-> EmptyMap,
     deltas           |-> EmptyMap]

(* What flowMonitor->GetFlowStats() can return after it returned old: the  *)
(* flow monitor never drops a flow, it starts tracking new ones, and the   *)
(* counters of a flow take any of the given values.  They may go down,     *)
(* which stands for a reset or an inconsistent snapshot.                   *)
Snapshots(old, values) ==
    UNION {[flows -> values] :
              flows \in {F \in SUBSET FlowIds :
                            DOMAIN old \subseteq F /\ Cardinality(F) <= MaxFlows}}

(* Simulator::Stop(Seconds(simTime)) is scheduled before Simulator::Run    *)
(* and after the first update: events of one time run in the order they    *)
(* were scheduled, so the first update still runs when it is due at        *)
(* simTime itself, and an update that a former one scheduled for simTime   *)
(* comes after the stop event and is never run.                            *)
StatsDue ==
    /\ statsAt # NoEvent
    /\ \/ statsAt < params.simTime
       \/ statsAt = params.simTime /\ g_timePlot = <<>>

(* the next update is scheduled whatever the time *)
NextStatsAtAlways(currentTime, now) ==
    now + params.statsInterval

(* Schedule next statistics update *)
NextStatsAt(currentTime, now) ==
    IF currentTime + params.statsInterval <= params.simTime
    THEN now + params.statsInterval
    ELSE NoEvent

(* the counts pushed but not reset *)
LogHandoverCountsKeep ==
    /\ g_handoverStartPlot' = Append(g_handoverStartPlot, g_handoverStartCount)
    /\ g_handoverSuccessPlot' = Append(g_handoverSuccessPlot, g_handoverSuccessCount)
    /\ g_handoverFailurePlot' = Append(g_handoverFailurePlot, g_handoverFailureCount)
    /\ UNCHANGED handoverCounts

(* the counts are logged only for an interval that had a handover event *)
LogHandoverCountsIfAny ==
    IF g_handoverStartCount + g_handoverSuccessCount + g_handoverFailureCount > 0
    THEN /\ g_handoverStartPlot' = Append(g_handoverStartPlot, g_handoverStartCount)
         /\ g_handoverSuccessPlot' = Append(g_handoverSuccessPlot, g_handoverSuccessCount)
         /\ g_handoverFailurePlot' = Append(g_handoverFailurePlot, g_handoverFailureCount)
         /\ g_handoverStartCount' = 0
         /\ g_handoverSuccessCount' = 0
         /\ g_handoverFailureCount' = 0
    ELSE UNCHANGED <<handoverCounts, handoverPlots>>

(* Log handover counts; reset counters for the next interval *)
LogHandoverCounts ==
    /\ g_handoverStartPlot' = Append(g_handoverStartPlot, g_handoverStartCount)
    /\ g_handoverSuccessPlot' = Append(g_handoverSuccessPlot, g_handoverSuccessCount)
    /\ g_handoverFailurePlot' = Append(g_handoverFailurePlot, g_handoverFailureCount)
    /\ g_handoverStartCount' = 0
    /\ g_handoverSuccessCount' = 0
    /\ g_handoverFailureCount' = 0

(* the mapping is dropped to be rebuilt from the snapshot *)
ClearFlowMapping ==
    g_flowIdToUeIndex' = EmptyMap

(* the update reads the snapshot and the previous counters; it does not    *)
(* write g_flowIdToUeIndex                                                 *)
KeepFlowMapping ==
    UNCHANGED g_flowIdToUeIndex

(* the time of the first update taken for the time of every update *)
AdvanceCurrentTimeOnce(currentTime, statsInterval) ==
    statsInterval

(* g_currentTime += params.statsInterval *)
AdvanceCurrentTime(currentTime, statsInterval) ==
    currentTime + statsInterval

StatsUpdate(st) ==
    /\ ~mappingPending
    /\ StatsDue
    /\ stats' = st
    /\ \E acc \in {ProcessFlows(StatsLocals(params), DOMAIN st, st, params)} :
       LET aggregateThroughputKbps == SumThroughput(acc.ueThroughputKbps, params.numUe)
           avgLatencyMs ==
               IF PSign(acc.totalRxPackets) > 0
               THEN DDiv(acc.totalLatencySum, DFromU64(acc.totalRxPackets))
               ELSE DZero
           avgThroughputKbps ==
               IF params.numUe > 0
               THEN DDiv(aggregateThroughputKbps, DInt(params.numUe))
               ELSE DZero
       IN  /\ g_currentTime' = AdvanceCurrentTime(g_currentTime, params.statsInterval)
           /\ LogHandoverCounts
           /\ g_previousRxBytes' = acc.prevRxBytes
           /\ g_previousRxPackets' = acc.prevRxPackets
           /\ g_previousDelaySum' = acc.prevDelaySum
           /\ g_previousJitterSum' = acc.prevJitterSum
           /\ g_avgThroughputPlot' = Append(g_avgThroughputPlot, avgThroughputKbps)
           /\ g_timePlot' = Append(g_timePlot, g_currentTime')
           /\ g_avgLatencyPlot' = Append(g_avgLatencyPlot, avgLatencyMs)
           /\ g_ueThroughputPlot' =
                  [i \in DOMAIN g_ueThroughputPlot |->
                      Append(g_ueThroughputPlot[i], acc.ueThroughputKbps[i])]
           /\ g_uePacketLossPlot' =
                  [i \in DOMAIN g_uePacketLossPlot |->
                      Append(g_uePacketLossPlot[i], acc.uePacketLossRate[i])]
           /\ g_ueJitterPlot' =
                  [i \in DOMAIN g_ueJitterPlot |->
                      Append(g_ueJitterPlot[i], acc.ueJitterMs[i])]
           /\ statsAt' = NextStatsAt(g_currentTime', statsAt)
           /\ lastUpdate' = [row |-> Len(g_timePlot) + 1,
                             previousStats |-> stats,
                             previousRxBytes |-> g_previousRxBytes,
                             previousRxPackets |-> g_previousRxPackets,
                             previousDelaySum |-> g_previousDelaySum,
                             previousJitterSum |-> g_previousJitterSum,
                             seen |-> acc.seen,
                             deltas |-> acc.deltas,
                             totalDeltaBytes |->
                                 [f \in DOMAIN acc.deltas |->
                                     PAdd(MapGet(lastUpdate.totalDeltaBytes, f, <<>>),
                                          acc.deltas[f].bytes)],
                             nonDecreasing |->
                                 {f \in DOMAIN acc.deltas :
                                     \/ f \notin DOMAIN stats
                                     \/ /\ st[f].rxBytes >= stats[f].rxBytes
                                        /\ \/ f \in lastUpdate.nonDecreasing
                                           \/ f \notin DOMAIN lastUpdate.deltas}]
           /\ attributedTo' =
                  [f \in FlowIds |->
                      IF f \in DOMAIN acc.seen
                      THEN attributedTo[f] \cup {acc.seen[f]}
                      ELSE attributedTo[f]]
    /\ KeepFlowMapping
    /\ UNCHANGED <<params, mappingPending, delivered, mobility, lastCallback>>

PeriodicStatsUpdate ==
    \E st \in Snapshots(stats, StatsValues) : StatsUpdate(st)

----------------------------------------------------------------------------
(* The event scheduled at Seconds(0.0): map flows to UEs and initialise    *)
(* the statistics                                                          *)

MapFlow(acc, f, p) ==
    LET destPort == FindFlow[f].destinationPort
    IN  IF InPortRange(destPort, p.numUe)
        THEN [flowIdToUeIndex |-> MapPut(acc.flowIdToUeIndex, f, destPort - basePort),
              prevRxBytes     |-> MapPut(acc.prevRxBytes, f, 0),
              prevDelaySum    |-> MapPut(acc.prevDelaySum, f, 0),
              prevJitterSum   |-> MapPut(acc.prevJitterSum, f, 0),
              prevRxPackets   |-> MapPut(acc.prevRxPackets, f, 0)]
        ELSE acc

RECURSIVE MapFlows(_, _, _)
MapFlows(acc, todo, p) ==
    IF todo = {} THEN acc
    ELSE LET f == SetMin(todo)
         IN  MapFlows(MapFlow(acc, f, p), todo \ {f}, p)

MappingEvent(initialStats) ==
    /\ mappingPending
    /\ mappingPending' = FALSE
    /\ stats' = initialStats
    /\ \E acc \in {MapFlows([flowIdToUeIndex |-> g_flowIdToUeIndex,
                            prevRxBytes     |-> g_previousRxBytes,
                            prevDelaySum    |-> g_previousDelaySum,
                            prevJitterSum   |-> g_previousJitterSum,
                            prevRxPackets   |-> g_previousRxPackets],
                           DOMAIN initialStats, params)} :
           /\ g_flowIdToUeIndex' = acc.flowIdToUeIndex
           /\ g_previousRxBytes' = acc.prevRxBytes
           /\ g_previousDelaySum' = acc.prevDelaySum
           /\ g_previousJitterSum' = acc.prevJitterSum
           /\ g_previousRxPackets' = acc.prevRxPackets
    /\ UNCHANGED <<params, g_currentTime, plots, handoverCounts, handoverPlots,
                   statsAt, delivered, lastUpdate, attributedTo, mobility,
                   lastCallback>>

(* At time 0 nothing has been received yet *)
InitialFlowMapping ==
    \E initialStats \in Snapshots(stats, {FlowStats(0, 0, 0, 0, 0)}) :
        MappingEvent(initialStats)

----------------------------------------------------------------------------
(* Mobility and attachment.  UEs and eNBs are named by their index in      *)
(* ueNodes and enbNodes, also in the arguments of the trace callbacks.     *)
(* Distances are compared by their squares.                                *)

numEnb == 2

areaSize == 500

Vector(x, y, z) ==
    <<x, y, z>>

(* the positions of a list, indexed from 0 as the node containers are *)
Positions(list) ==
    [j \in 0..(Len(list) - 1) |-> list[j + 1]]

ConfigureEnbMobility(n, size) ==
    IF n = 4
    THEN Positions(<<Vector(size \div 4, size \div 4, 30),
                     Vector(size \div 4, (3 * size) \div 4, 30),
                     Vector((3 * size) \div 4, size \div 4, 30),
                     Vector((3 * size) \div 4, (3 * size) \div 4, 30)>>)
    ELSE IF n = 2
    THEN Positions(<<Vector(size \div 4, size \div 2, 30),
                     Vector((3 * size) \div 4, size \div 2, 30)>>)
    ELSE [j \in 0..(n - 1) |-> Vector(size \div 2, size \div 2, 30)]

(* where the position allocator puts the UEs in the runs that do not move  *)
(* them                                                                    *)
InitialUePositions(n, size) ==
    [i \in 0..(n - 1) |-> Vector((i * size) \div n, size \div 2, 0)]

CalculateDistanceSquared(a, b) ==
    (a[1] - b[1]) * (a[1] - b[1]) + (a[2] - b[2]) * (a[2] - b[2])
        + (a[3] - b[3]) * (a[3] - b[3])

(* std::numeric_limits<double>::max() *)
MaxDistance == -1

RECURSIVE ClosestEnbFromLast(_, _, _, _)
RECURSIVE ClosestEnbFrom(_, _, _, _)

(* dist <= minDistance: the last of the nearest cells wins *)
ClosestEnbFromLast(uePos, cells, j, best) ==
    IF j \notin DOMAIN cells THEN best
    ELSE LET dist == CalculateDistanceSquared(uePos, cells[j])
         IN  IF best.minDistance = MaxDistance \/ dist <= best.minDistance
             THEN ClosestEnbFromLast(uePos, cells, j + 1,
                                     [closestEnb |-> j, minDistance |-> dist])
             ELSE ClosestEnbFromLast(uePos, cells, j + 1, best)

(* the loop over the eNodeBs from index j on *)
ClosestEnbFrom(uePos, cells, j, best) ==
    IF j \notin DOMAIN cells THEN best
    ELSE LET dist == CalculateDistanceSquared(uePos, cells[j])
         IN  IF best.minDistance = MaxDistance \/ dist < best.minDistance
             THEN ClosestEnbFrom(uePos, cells, j + 1,
                                 [closestEnb |-> j, minDistance |-> dist])
             ELSE ClosestEnbFrom(uePos, cells, j + 1, best)

(* closestEnb is never assigned in the loop *)
ClosestEnbKeepFirst(uePos, cells) ==
    [closestEnb  |-> 0,
     minDistance |-> ClosestEnbFrom(uePos, cells, 0,
                         [closestEnb |-> 0, minDistance |-> MaxDistance]).minDistance]

(* the search for the nearest eNodeB *)
ClosestEnb(uePos, cells) ==
    ClosestEnbFrom(uePos, cells, 0, [closestEnb |-> 0, minDistance |-> MaxDistance])

(* lteHelper->Attach(ueDevs.Get(i), enbDevs.Get(closestEnb)) for every UE *)
AttachToClosest(positions, cells) ==
    [i \in DOMAIN positions |-> ClosestEnb(positions[i], cells).closestEnb]

(* The handover check of the specification (4.4): the trigger condition on *)
(* the nearest cell; the check itself leaves the attachment alone.          *)
distanceThresholdMeters == 50

Evaluate(entityId, position, cells, attach, distanceThreshold) ==
    LET best == ClosestEnb(position, cells)
    IN  [shouldHandover |-> /\ best.closestEnb # attach[entityId]
                            /\ best.minDistance < distanceThreshold * distanceThreshold,
         targetCellId   |-> best.closestEnb]

RequestHandover(entityId, sourceCellId, targetCellId) ==
    [entityId |-> entityId, sourceCellId |-> sourceCellId, targetCellId |-> targetCellId]

HandoverTick ==
    /\ handoverRequests' =
           {RequestHandover(e, attachment[e],
                            Evaluate(e, uePosition[e], enbPosition, attachment,
                                     distanceThresholdMeters).targetCellId) :
               e \in {u \in DOMAIN uePosition :
                         Evaluate(u, uePosition[u], enbPosition, attachment,
                                  distanceThresholdMeters).shouldHandover}}
    /\ evaluated' = [done |-> TRUE, position |-> uePosition, attachment |-> attachment]
    /\ UNCHANGED <<params, stats, g_currentTime, plots, previous, g_flowIdToUeIndex,
                   handoverCounts, handoverPlots, mappingPending, statsAt, delivered,
                   lastUpdate, attributedTo, enbPosition, uePosition, attachment,
                   lastCallback>>

(* the mobility model moves a UE *)
CourseChange(ue, position) ==
    /\ uePosition[ue] # position
    /\ uePosition' = [uePosition EXCEPT ![ue] = position]
    /\ UNCHANGED <<params, stats, g_currentTime, plots, previous, g_flowIdToUeIndex,
                   handoverCounts, handoverPlots, mappingPending, statsAt, delivered,
                   lastUpdate, attributedTo, enbPosition, attachment,
                   handoverRequests, evaluated, lastCallback>>

NoEvaluation ==
    [done |-> FALSE, position |-> EmptyMap, attachment |-> EmptyMap]

NoCallback ==
    [event |-> "", imsi |-> NoUe, cellId |-> NoUe, targetCellId |-> NoUe, reason |-> 0]

InitMobility(cells, positions) ==
    /\ enbPosition = cells
    /\ uePosition = positions
    /\ attachment = AttachToClosest(positions, cells)
    /\ handoverRequests = {}
    /\ evaluated = NoEvaluation
    /\ lastCallback = NoCallback

----------------------------------------------------------------------------
(* The simulator delivers the trace callbacks between the other events, at *)
(* any time before the stop time, also after the last PeriodicStatsUpdate. *)

CallbacksDelivered ==
    delivered.start + delivered.success + delivered.failure

(* the arguments of a trace callback: what its log line holds *)
Callback(event, imsi, cellId, targetCellId, reason) ==
    [event |-> event, imsi |-> imsi, cellId |-> cellId,
     targetCellId |-> targetCellId, reason |-> reason]

(* the callback runs inside an update, between the push and the reset of   *)
(* the counter, and its increment is wiped                                 *)
HandoverStartCallbackInsideUpdate(imsi, cellId, targetCellId, reason) ==
    /\ CallbacksDelivered < MaxHandovers
    /\ g_handoverStartCount' = 0
    /\ delivered' = [delivered EXCEPT !.start = @ + 1]
    /\ lastCallback' = Callback("Handover Start", imsi, cellId, targetCellId, reason)
    /\ UNCHANGED <<params, stats, g_currentTime, plots, previous, g_flowIdToUeIndex,
                   g_handoverSuccessCount, g_handoverFailureCount, handoverPlots,
                   mappingPending, statsAt, lastUpdate, attributedTo, mobility>>

HandoverStartCallback(imsi, cellId, targetCellId, reason) ==
    /\ CallbacksDelivered < MaxHandovers
    /\ g_handoverStartCount' = g_handoverStartCount + 1
    /\ delivered' = [delivered EXCEPT !.start = @ + 1]
    /\ lastCallback' = Callback("Handover Start", imsi, cellId, targetCellId, reason)
    /\ UNCHANGED <<params, stats, g_currentTime, plots, previous, g_flowIdToUeIndex,
                   g_handoverSuccessCount, g_handoverFailureCount, handoverPlots,
                   mappingPending, statsAt, lastUpdate, attributedTo, mobility>>

HandoverSuccessCallback(imsi, cellId, targetCellId, reason) ==
    /\ CallbacksDelivered < MaxHandovers
    /\ g_handoverSuccessCount' = g_handoverSuccessCount + 1
    /\ delivered' = [delivered EXCEPT !.success = @ + 1]
    /\ lastCallback' = Callback("Handover Success", imsi, cellId, targetCellId, reason)
    /\ UNCHANGED <<params, stats, g_currentTime, plots, previous, g_flowIdToUeIndex,
                   g_handoverStartCount, g_handoverFailureCount, handoverPlots,
                   mappingPending, statsAt, lastUpdate, attributedTo, mobility>>

(* a failed handover is taken for a completed one *)
HandoverFailureCallbackAttaching(imsi, cellId, targetCellId, reason) ==
    /\ CallbacksDelivered < MaxHandovers
    /\ g_handoverFailureCount' = g_handoverFailureCount + 1
    /\ delivered' = [delivered EXCEPT !.failure = @ + 1]
    /\ lastCallback' = Callback("Handover Failure", imsi, cellId, targetCellId, reason)
    /\ attachment' = [attachment EXCEPT ![imsi] = targetCellId]
    /\ UNCHANGED <<params, stats, g_currentTime, plots, previous, g_flowIdToUeIndex,
                   g_handoverStartCount, g_handoverSuccessCount, handoverPlots,
                   mappingPending, statsAt, lastUpdate, attributedTo,
                   enbPosition, uePosition, handoverRequests, evaluated>>

HandoverFailureCallback(imsi, cellId, targetCellId, reason) ==
    /\ CallbacksDelivered < MaxHandovers
    /\ g_handoverFailureCount' = g_handoverFailureCount + 1
    /\ delivered' = [delivered EXCEPT !.failure = @ + 1]
    /\ lastCallback' = Callback("Handover Failure", imsi, cellId, targetCellId, reason)
    /\ UNCHANGED <<params, stats, g_currentTime, plots, previous, g_flowIdToUeIndex,
                   g_handoverStartCount, g_handoverSuccessCount, handoverPlots,
                   mappingPending, statsAt, lastUpdate, attributedTo, mobility>>

(* Config::Connect of the three traces: a callback for one of the given    *)
(* UEs, from the cell it was attached to to any other                      *)
HandoverStart(ues) ==
    \E imsi \in ues : \E targetCellId \in DOMAIN enbPosition :
        /\ targetCellId # attachment[imsi]
        /\ HandoverStartCallback(imsi, attachment[imsi], targetCellId, 0)

HandoverEndOk(ues) ==
    \E imsi \in ues : \E targetCellId \in DOMAIN enbPosition :
        /\ targetCellId # attachment[imsi]
        /\ HandoverSuccessCallback(imsi, attachment[imsi], targetCellId, 0)

HandoverFailure(ues) ==
    \E imsi \in ues : \E targetCellId \in DOMAIN enbPosition :
        /\ targetCellId # attachment[imsi]
        /\ HandoverFailureCallback(imsi, attachment[imsi], targetCellId, 0)

----------------------------------------------------------------------------
NoUpdate ==
    [row |-> 0, previousStats |-> EmptyMap, previousRxBytes |-> EmptyMap,
     previousRxPackets |-> EmptyMap,
     previousDelaySum |-> EmptyMap, previousJitterSum |-> EmptyMap,
     seen |-> EmptyMap, deltas |-> EmptyMap,
     totalDeltaBytes |-> EmptyMap, nonDecreasing |-> {}]

InitState(p) ==
    /\ params = p
    /\ stats = EmptyMap
    /\ g_currentTime = 0
    /\ g_timePlot = <<>>
    /\ g_ueThroughputPlot = [i \in 0..(p.numUe - 1) |-> <<>>]
    /\ g_uePacketLossPlot = [i \in 0..(p.numUe - 1) |-> <<>>]
    /\ g_ueJitterPlot = [i \in 0..(p.numUe - 1) |-> <<>>]
    /\ g_avgLatencyPlot = <<>>
    /\ g_avgThroughputPlot = <<>>
    /\ g_previousRxBytes = EmptyMap
    /\ g_previousDelaySum = EmptyMap
    /\ g_previousJitterSum = EmptyMap
    /\ g_previousRxPackets = EmptyMap
    /\ g_flowIdToUeIndex = EmptyMap
    /\ g_handoverStartCount = 0
    /\ g_handoverSuccessCount = 0
    /\ g_handoverFailureCount = 0
    /\ g_handoverStartPlot = <<>>
    /\ g_handoverSuccessPlot = <<>>
    /\ g_handoverFailurePlot = <<>>
    /\ mappingPending = TRUE
    /\ statsAt = p.statsInterval
    /\ delivered = [start |-> 0, success |-> 0, failure |-> 0]
    /\ lastUpdate = NoUpdate
    /\ attributedTo = [f \in FlowIds |-> {}]

Init ==
    /\ \E interval \in StatsIntervals :
           InitState([numUe |-> numUe, simTime |-> SimTime, statsInterval |-> interval])
    /\ InitMobility(ConfigureEnbMobility(numEnb, areaSize),
                    InitialUePositions(numUe, areaSize))

Next ==
    \/ InitialFlowMapping
    \/ PeriodicStatsUpdate

Spec ==
    Init /\ [][Next]_vars

----------------------------------------------------------------------------
(* A steady run: one UDP flow to port basePort + 3 whose receivedBytes     *)
(* grow by SteadyBytes between two updates, statsInterval 1 s, and the     *)
(* stop time right after update number SteadyTicks; the handover trace     *)
(* callbacks arrive at any time.                                           *)

SteadyTicks == 10

SteadyBytes == 1000

SteadyStats(k) ==
    [f \in {1} |-> FlowStats(SteadyBytes * k, 10 * k, 10 * k, 200 * k, 10 * k)]

SteadyMapping ==
    \E initialStats \in {EmptyMap, SteadyStats(0)} : MappingEvent(initialStats)

SteadyStatsUpdate ==
    StatsUpdate(SteadyStats(Len(g_timePlot) + 1))

InitSteady ==
    /\ InitState([numUe |-> numUe, simTime |-> SteadyTicks + 1, statsInterval |-> 1])
    /\ InitMobility(ConfigureEnbMobility(numEnb, areaSize),
                    InitialUePositions(numUe, areaSize))

NextSteady ==
    \/ SteadyMapping
    \/ SteadyStatsUpdate
    \/ HandoverStart({3})
    \/ HandoverEndOk({3})
    \/ HandoverFailure({3})

SpecSteady ==
    InitSteady /\ [][NextSteady]_vars

----------------------------------------------------------------------------
(* Runs to their end, without traffic: the flow monitor shows no flow at   *)
(* time 0 and at the updates.  statsInterval goes from 1 s to one second   *)
(* more than the stop time, so that the stop time is a multiple of the     *)
(* interval, is none, and is shorter than it.  The simulator runs every    *)
(* event that is due before the stop event.                                *)

QuietMapping ==
    MappingEvent(EmptyMap)

QuietStatsUpdate ==
    StatsUpdate(EmptyMap)

InitLive ==
    /\ \E interval \in 1..(SimTime + 1) :
           InitState([numUe |-> numUe, simTime |-> SimTime, statsInterval |-> interval])
    /\ InitMobility(ConfigureEnbMobility(numEnb, areaSize),
                    InitialUePositions(numUe, areaSize))

NextLive ==
    \/ QuietMapping
    \/ QuietStatsUpdate
    \/ HandoverStart({3})
    \/ HandoverEndOk({3})
    \/ HandoverFailure({3})

SpecLive ==
    /\ InitLive
    /\ [][NextLive]_vars
    /\ WF_vars(QuietMapping)
    /\ WF_vars(QuietStatsUpdate)

----------------------------------------------------------------------------
(* A run with statsInterval 0: the first update is due at time 0, right    *)
(* after the flow mapping, and every update schedules the next one at the  *)
(* same time, so the simulated time stays 0, nothing is ever received, and *)
(* the stop event is never reached.  The run is followed for               *)
(* ZeroIntervalTicks updates.                                              *)

ZeroIntervalTicks == 2

ZeroIntervalStatsUpdate ==
    /\ Len(g_timePlot) < ZeroIntervalTicks
    /\ \E st \in Snapshots(stats, {FlowStats(0, 0, 0, 0, 0)}) : StatsUpdate(st)

InitZeroInterval ==
    /\ InitState([numUe |-> numUe, simTime |-> SimTime, statsInterval |-> 0])
    /\ InitMobility(ConfigureEnbMobility(numEnb, areaSize),
                    InitialUePositions(numUe, areaSize))

NextZeroInterval ==
    \/ InitialFlowMapping
    \/ ZeroIntervalStatsUpdate

SpecZeroInterval ==
    InitZeroInterval /\ [][NextZeroInterval]_vars

----------------------------------------------------------------------------
(* The initial attach: the eNodeBs are placed by ConfigureEnbMobility for  *)
(* a number of eNodeBs up to MaxEnb, the position allocator has put each   *)
(* UE at one of a few places, and the loop of main attaches the UEs in     *)
(* index order, one per step.                                              *)

MaxEnb == 4

AttachUes == 2

(* the centre of the area, places on the line between the two eNodeBs of   *)
(* the 2-eNodeB placement, and places between eNodeBs of the 4-eNodeB one  *)
AttachPlaces ==
    {Vector(areaSize \div 2, areaSize \div 2, 0),
     Vector(100, areaSize \div 2, 0),
     Vector(400, areaSize \div 2, 0),
     Vector((3 * areaSize) \div 4, areaSize \div 2, 0),
     Vector(300, 400, 0)}

AttachUe ==
    \E i \in DOMAIN uePosition :
        /\ i = Cardinality(DOMAIN attachment)
        /\ attachment' = MapPut(attachment, i, ClosestEnb(uePosition[i], enbPosition).closestEnb)
        /\ UNCHANGED <<params, stats, g_currentTime, plots, previous, g_flowIdToUeIndex,
                       handoverCounts, handoverPlots, mappingPending, statsAt, delivered,
                       lastUpdate, attributedTo, enbPosition, uePosition,
                       handoverRequests, evaluated, lastCallback>>

InitAttach ==
    /\ InitState([numUe |-> AttachUes, simTime |-> SimTime, statsInterval |-> 1])
    /\ \E n \in 1..MaxEnb : enbPosition = ConfigureEnbMobility(n, areaSize)
    /\ uePosition \in [0..(AttachUes - 1) -> AttachPlaces]
    /\ attachment = EmptyMap
    /\ handoverRequests = {}
    /\ evaluated = NoEvaluation
    /\ lastCallback = NoCallback

NextAttach ==
    AttachUe

SpecAttach ==
    InitAttach /\ [][NextAttach]_vars

----------------------------------------------------------------------------
(* The handover run: two cells 100 m apart, UEs that move between three    *)
(* places, the handover check, and the network answering its requests by   *)
(* the trace callbacks.                                                    *)

HandoverUes == 2

ExampleCells ==
    Positions(<<Vector(0, 0, 0), Vector(100, 0, 0)>>)

(* 10 m from the first cell, 10 m from the second, and exactly 50 m from   *)
(* the first                                                               *)
UePlaces ==
    {Vector(10, 0, 0), Vector(90, 0, 0), Vector(30, 40, 0)}

InitHandover ==
    /\ InitState([numUe |-> HandoverUes, simTime |-> SimTime, statsInterval |-> 1])
    /\ \E positions \in [0..(HandoverUes - 1) -> UePlaces] :
           InitMobility(ExampleCells, positions)

(* a handover ends, well or badly, after it has started *)
Started(r) ==
    lastCallback = Callback("Handover Start", r.entityId, r.sourceCellId, r.targetCellId, 0)

NextHandover ==
    \/ \E ue \in DOMAIN uePosition : \E position \in UePlaces : CourseChange(ue, position)
    \/ HandoverTick
    \/ \E r \in handoverRequests :
           HandoverStartCallback(r.entityId, r.sourceCellId, r.targetCellId, 0)
    \/ \E r \in handoverRequests :
           /\ Started(r)
           /\ HandoverSuccessCallback(r.entityId, r.sourceCellId, r.targetCellId, 0)
    \/ \E r \in handoverRequests :
           /\ Started(r)
           /\ HandoverFailureCallback(r.entityId, r.sourceCellId, r.targetCellId, 0)

SpecHandover ==
    InitHandover /\ [][NextHandover]_vars

----------------------------------------------------------------------------
(* The row the last PeriodicStatsUpdate appended *)

Rows ==
    Len(g_timePlot)

LastThroughput(u) ==
    g_ueThroughputPlot[u][Len(g_ueThroughputPlot[u])]

LastPacketLoss(u) ==
    g_uePacketLossPlot[u][Len(g_uePacketLossPlot[u])]

LastJitter(u) ==
    g_ueJitterPlot[u][Len(g_ueJitterPlot[u])]

LastAvgLatency ==
    g_avgLatencyPlot[Len(g_avgLatencyPlot)]

(* the flows of the last snapshot that are UDP flows to the port of UE u *)
FlowsOfUe(u) ==
    {f \in DOMAIN stats :
        /\ FindFlow[f].protocol = UDP
        /\ FindFlow[f].destinationPort = basePort + u}

PortFlows ==
    UNION {FlowsOfUe(u) : u \in UeIndexes}

ZeroDeltas ==
    [bytes |-> <<>>, packets |-> <<>>, delaySum |-> 0, jitterSum |-> 0]

(* the flows of the last snapshot that the update before it had read with  *)
(* the very same counters                                                  *)
UnchangedFlows ==
    {f \in DOMAIN lastUpdate.previousStats : lastUpdate.previousStats[f] = stats[f]}

(* the flows whose receivedBytes were lower in the last snapshot than in   *)
(* the entry stored for them before                                        *)
DecreasedFlows ==
    {f \in DOMAIN lastUpdate.deltas :
        /\ f \in DOMAIN lastUpdate.previousRxBytes
        /\ stats[f].rxBytes < lastUpdate.previousRxBytes[f]}

(* the flows the last update computed deltas for although no g_previous    *)
(* entry existed                                                           *)
FirstSeenFlows ==
    {f \in DOMAIN lastUpdate.deltas : f \notin DOMAIN lastUpdate.previousRxBytes}

----------------------------------------------------------------------------
(* C1: when two consecutive updates read identical counters for a flow,    *)
(* the second one computes a zero delta in every field for it, and a UE    *)
(* all of whose flows are unchanged gets throughput 0 in that row.         *)
C1_UnchangedCountersZeroDelta ==
    Rows >= 2 =>
        /\ \A f \in UnchangedFlows \cap DOMAIN lastUpdate.deltas :
              lastUpdate.deltas[f] = ZeroDeltas
        /\ \A u \in UeIndexes :
              FlowsOfUe(u) \subseteq UnchangedFlows => DEq(LastThroughput(u), DZero)

C1_Witness ==
    /\ Rows >= 2
    /\ \E f \in UnchangedFlows \cap DOMAIN lastUpdate.deltas : stats[f].rxBytes > 0

(* C2, as stated: the first update that reads a flow without a g_previous  *)
(* entry computes a zero delta for it.                                     *)
C2_FirstObservationZeroDelta ==
    \A f \in FirstSeenFlows : lastUpdate.deltas[f] = ZeroDeltas

(* C2, amended: the first update that reads a flow without a g_previous    *)
(* entry computes deltas equal to the flow's cumulative counters, and they *)
(* count in that row's throughput.                                         *)
C2_FirstObservationFullDelta ==
    \A f \in FirstSeenFlows :
        /\ lastUpdate.deltas[f] =
              [bytes |-> PInt(stats[f].rxBytes), packets |-> PInt(stats[f].rxPackets),
               delaySum |-> stats[f].delaySum, jitterSum |-> stats[f].jitterSum]
        /\ stats[f].rxBytes > 0 => DSign(LastThroughput(lastUpdate.seen[f])) > 0

C2_Witness ==
    \E f \in FirstSeenFlows : stats[f].rxBytes > 0

(* C3: every throughput in every row is >= 0, also after an update that    *)
(* read lower receivedBytes than the one before.                           *)
C3_ThroughputNonNegative ==
    \A u \in UeIndexes : \A i \in 1..Len(g_ueThroughputPlot[u]) :
        DGeqZero(g_ueThroughputPlot[u][i])

C3_Witness ==
    /\ Rows >= 2
    /\ \E f \in DecreasedFlows : DGeqZero(LastThroughput(lastUpdate.seen[f]))

(* C4, as stated: a counter that is lower than the stored value gives a    *)
(* delta of exactly zero.                                                  *)
C4_DecreaseClampedToZero ==
    \A f \in DecreasedFlows : lastUpdate.deltas[f].bytes = <<>>

C6_AttributionDeterministic ==
    \A f \in FlowIds : Cardinality(attributedTo[f]) <= 1

C6_Witness ==
    /\ Rows >= 2
    /\ Cardinality(DOMAIN lastUpdate.previousStats) = 1
    /\ Cardinality(DOMAIN stats) = 2
    /\ \E f \in DOMAIN lastUpdate.previousStats : attributedTo[f] = {3}

(* the flows of the last snapshot to a port outside the range of the UEs   *)
(* that carry the address of UE u as source or destination                 *)
AddressFlows(u) ==
    {f \in DOMAIN stats :
        /\ \/ FindFlow[f].destinationPort < basePort
           \/ FindFlow[f].destinationPort >= basePort + numUe
        /\ \/ FindFlow[f].sourceAddress = ueAddresses[u]
           \/ FindFlow[f].destinationAddress = ueAddresses[u]}

(* the flows of the last snapshot with neither a port nor an address of a  *)
(* UE                                                                      *)
UnattributableFlows ==
    {f \in DOMAIN stats :
        /\ \/ FindFlow[f].destinationPort < basePort
           \/ FindFlow[f].destinationPort >= basePort + numUe
        /\ \A u \in UeIndexes : f \notin AddressFlows(u)}

PreviousKeys ==
    UNION {DOMAIN g_previousRxBytes, DOMAIN g_previousRxPackets,
           DOMAIN g_previousDelaySum, DOMAIN g_previousJitterSum}

(* receivedBytes of the last snapshot minus the stored value (0 when there *)
(* was none), modulo 2^64                                                  *)
IntervalBytes(f) ==
    LET diff == stats[f].rxBytes - MapGet(lastUpdate.previousRxBytes, f, 0)
    IN  IF diff = 0 THEN <<>> ELSE IF diff > 0 THEN <<diff>> ELSE <<diff, 1>>

RECURSIVE SumIntervalBytes(_)
SumIntervalBytes(flows) ==
    IF flows = {} THEN <<>>
    ELSE LET f == CHOOSE x \in flows : TRUE
         IN  PAdd(IntervalBytes(f), SumIntervalBytes(flows \ {f}))

(* C7, as stated: a flow to a port outside the range that carries the      *)
(* address of UE u is attributed to u and its deltas are counted.          *)
C7_AddressFallback ==
    Rows >= 1 =>
        \A u \in UeIndexes : \A f \in AddressFlows(u) :
            lastUpdate.seen[f] = u /\ f \in DOMAIN lastUpdate.deltas

(* C7, amended: a flow to a port outside the range is skipped by the       *)
(* update even when it carries the address of a UE: no delta is computed,  *)
(* no g_previous entry is made and the UE's metrics do not count it.       *)
C7_NoAddressFallback ==
    Rows >= 1 =>
        \A u \in UeIndexes : \A f \in AddressFlows(u) :
            /\ lastUpdate.seen[f] = NoUe
            /\ f \notin DOMAIN lastUpdate.deltas
            /\ f \notin PreviousKeys
            /\ FlowsOfUe(u) = {} =>
                  /\ DEq(LastThroughput(u), DZero)
                  /\ DEq(LastPacketLoss(u), DZero)
                  /\ DEq(LastJitter(u), DZero)

C7_Witness ==
    /\ Rows >= 1
    /\ \E f \in AddressFlows(2) : stats[f].rxBytes > 0 /\ lastUpdate.seen[f] = NoUe

(* C8: a flow with neither a port nor an address of a UE is skipped: no    *)
(* delta, no g_previous entry, no metric of any UE comes from it, every    *)
(* flow to a UE port in the same snapshot is still processed and the row   *)
(* is appended.                                                            *)
C8_UnattributableSkipped ==
    (Rows >= 1 /\ UnattributableFlows # {}) =>
        /\ \A f \in UnattributableFlows :
              /\ lastUpdate.seen[f] = NoUe
              /\ f \notin DOMAIN lastUpdate.deltas
              /\ f \notin PreviousKeys
        /\ PortFlows \subseteq DOMAIN lastUpdate.deltas
        /\ PortFlows \subseteq DOMAIN g_previousRxBytes
        /\ PortFlows = {} =>
              /\ DEq(LastAvgLatency, DZero)
              /\ \A u \in UeIndexes :
                    /\ DEq(LastThroughput(u), DZero)
                    /\ DEq(LastPacketLoss(u), DZero)
                    /\ DEq(LastJitter(u), DZero)
        /\ Rows = lastUpdate.row
        /\ \A u \in UeIndexes : Len(g_ueThroughputPlot[u]) = lastUpdate.row

C8_Witness ==
    /\ Rows >= 1
    /\ \E f \in UnattributableFlows : stats[f].rxBytes > 0
    /\ \E f \in PortFlows : lastUpdate.deltas[f].bytes # <<>>

(* C9: in the row of an update the throughput of each UE is                *)
(* (sum of the interval bytes of its flows * 8) / 1000 / statsInterval.    *)
C9_ThroughputFormula ==
    Rows >= 1 =>
        \A u \in UeIndexes :
            DEq(LastThroughput(u),
                DMake(PScale(8, SumIntervalBytes(FlowsOfUe(u))),
                      PInt(1000 * params.statsInterval)))

C9_Witness ==
    /\ Rows >= 1
    /\ \E u \in UeIndexes :
          /\ Cardinality(FlowsOfUe(u)) = 2
          /\ \A f \in FlowsOfUe(u) : IntervalBytes(f) # <<>>

(* C10: in the steady run every row, the first included, holds             *)
(* SteadyBytes * 8 / 1000 Kbps (8.0 for 1000 bytes) for UE 3, and the run  *)
(* ends with SteadyTicks rows.                                             *)
C10_SteadyThroughput ==
    /\ \A i \in 1..Len(g_ueThroughputPlot[3]) :
          DEq(g_ueThroughputPlot[3][i], DMake(PInt(SteadyBytes * 8), <<1000>>))
    /\ (~mappingPending /\ ~StatsDue) => Rows = SteadyTicks

C10_Witness ==
    /\ Rows = SteadyTicks
    /\ DEq(g_ueThroughputPlot[3][1], DMake(PInt(SteadyBytes * 8), <<1000>>))
    /\ DEq(g_ueThroughputPlot[3][SteadyTicks], DMake(PInt(SteadyBytes * 8), <<1000>>))

----------------------------------------------------------------------------
(* (txPackets - rxPackets) / txPackets x 100 from the cumulative counters  *)
(* of flow f in the last snapshot, 0 when txPackets is 0                   *)
CumulativeLoss(f) ==
    IF stats[f].txPackets = 0 THEN DZero
    ELSE DMake(PInt((stats[f].txPackets - stats[f].rxPackets) * 100),
               PInt(stats[f].txPackets))

(* the flows of UE u with the largest txPackets in the last snapshot *)
LargestTxFlows(u) ==
    {f \in FlowsOfUe(u) :
        \A g \in FlowsOfUe(u) : stats[g].txPackets <= stats[f].txPackets}

(* C11, as stated: the packet loss recorded for a UE in a row is the       *)
(* cumulative loss of the flow with the largest txPackets among the flows  *)
(* of that UE.                                                             *)
C11_LargestTxRepresentative ==
    Rows >= 1 =>
        \A u \in UeIndexes :
            FlowsOfUe(u) # {} =>
                \E f \in LargestTxFlows(u) : DEq(LastPacketLoss(u), CumulativeLoss(f))

----------------------------------------------------------------------------
(* rxPackets of the last snapshot minus the stored value (0 when there was *)
(* none), modulo 2^64                                                      *)
IntervalPackets(f) ==
    LET diff == stats[f].rxPackets - MapGet(lastUpdate.previousRxPackets, f, 0)
    IN  IF diff = 0 THEN <<>> ELSE IF diff > 0 THEN <<diff>> ELSE <<diff, 1>>

(* delaySum of the last snapshot minus the stored value, in ms *)
IntervalDelay(f) ==
    stats[f].delaySum - MapGet(lastUpdate.previousDelaySum, f, 0)

(* the flows that received packets in the interval *)
ReceivingFlows(flows) ==
    {f \in flows : IntervalPackets(f) # <<>>}

RECURSIVE SumIntervalPackets(_)
SumIntervalPackets(flows) ==
    IF flows = {} THEN <<>>
    ELSE LET f == CHOOSE x \in flows : TRUE
         IN  U64Add(IntervalPackets(f), SumIntervalPackets(flows \ {f}))

RECURSIVE SumIntervalDelay(_)
SumIntervalDelay(flows) ==
    IF flows = {} THEN 0
    ELSE LET f == CHOOSE x \in flows : TRUE
         IN  IntervalDelay(f) + SumIntervalDelay(flows \ {f})

(* (sum of delta delay seconds / sum of delta received packets) x 1000     *)
(* over the given flows, 0 when they received no packets                   *)
MeanLatencyMs(flows) ==
    LET received == ReceivingFlows(flows)
        packets == SumIntervalPackets(received)
    IN  IF PSign(packets) > 0
        THEN DMake(PInt(SumIntervalDelay(received)), packets)
        ELSE DZero

----------------------------------------------------------------------------
(* jitterSum of the last snapshot minus the stored value, in ms *)
IntervalJitter(f) ==
    stats[f].jitterSum - MapGet(lastUpdate.previousJitterSum, f, 0)

RECURSIVE SumIntervalJitter(_)
SumIntervalJitter(flows) ==
    IF flows = {} THEN 0
    ELSE LET f == CHOOSE x \in flows : TRUE
         IN  IntervalJitter(f) + SumIntervalJitter(flows \ {f})

(* (sum of delta jitter seconds / (sum of delta received packets - 1))     *)
(* x 1000 over the given flows, 0 when that denominator is <= 0            *)
MeanJitterMs(flows) ==
    LET samples == PSub(SumIntervalPackets(flows), <<1>>)
    IN  IF PSign(samples) > 0
        THEN DMake(PInt(SumIntervalJitter(flows)), samples)
        ELSE DZero

(* C13, as stated: the jitter a row holds for a UE is the jitter of the    *)
(* interval summed over the flows of the UE, divided by the packets of the *)
(* interval summed over them less one, and 0 below two packets.            *)
C13_PerUeJitter ==
    Rows >= 1 =>
        \A u \in UeIndexes : DEq(LastJitter(u), MeanJitterMs(FlowsOfUe(u)))

----------------------------------------------------------------------------
RECURSIVE SumSeq(_)
SumSeq(seq) ==
    IF seq = <<>> THEN 0 ELSE Head(seq) + SumSeq(Tail(seq))

(* every callback delivered so far is counted once: in one bucket or, if   *)
(* no update has run since, in the interval counter                        *)
CountedOnce ==
    /\ SumSeq(g_handoverStartPlot) + g_handoverStartCount = delivered.start
    /\ SumSeq(g_handoverSuccessPlot) + g_handoverSuccessCount = delivered.success
    /\ SumSeq(g_handoverFailurePlot) + g_handoverFailureCount = delivered.failure

(* an update appends the three interval counters as its buckets and leaves *)
(* the counters at zero; no other step touches a bucket                    *)
BucketStep ==
    IF Len(g_timePlot') = Len(g_timePlot) + 1
    THEN /\ g_handoverStartPlot' = Append(g_handoverStartPlot, g_handoverStartCount)
         /\ g_handoverSuccessPlot' = Append(g_handoverSuccessPlot, g_handoverSuccessCount)
         /\ g_handoverFailurePlot' = Append(g_handoverFailurePlot, g_handoverFailureCount)
         /\ g_handoverStartCount' = 0
         /\ g_handoverSuccessCount' = 0
         /\ g_handoverFailureCount' = 0
    ELSE UNCHANGED handoverPlots

----------------------------------------------------------------------------
(* C15: after a HandoverSuccessCallback for a UE with a target cell, the   *)
(* attachment of that UE is the target cell.                               *)

C15_SuccessAttaches ==
    lastCallback.event = "Handover Success" =>
        attachment[lastCallback.imsi] = lastCallback.targetCellId

----------------------------------------------------------------------------
(* C16: the handover check requests a handover for a UE exactly when the   *)
(* nearest cell is not the cell the UE is attached to and is nearer than   *)
(* distanceThresholdMeters, and the request names the nearest cell; a UE   *)
(* at (10,0) attached to the cell at (100,0) is sent to the cell at (0,0), *)
(* and a UE whose nearest cell is its own gets no request.                 *)

NearerCells(position, cell) ==
    {c \in DOMAIN enbPosition :
        CalculateDistanceSquared(position, enbPosition[c])
            < CalculateDistanceSquared(position, enbPosition[cell])}

(* the cells no other cell is nearer than *)
NearestCells(position) ==
    {c \in DOMAIN enbPosition : NearerCells(position, c) = {}}

WithinThreshold(position, cell) ==
    CalculateDistanceSquared(position, enbPosition[cell])
        < distanceThresholdMeters * distanceThresholdMeters

RequestsFor(e) ==
    {r \in handoverRequests : r.entityId = e}

C16_HandoverTrigger ==
    evaluated.done =>
        \A e \in DOMAIN evaluated.position :
            LET position == evaluated.position[e]
                current  == evaluated.attachment[e]
            IN  /\ \A r \in RequestsFor(e) :
                       /\ r.targetCellId \in NearestCells(position)
                       /\ r.targetCellId # current
                       /\ r.sourceCellId = current
                       /\ WithinThreshold(position, r.targetCellId)
                /\ Cardinality(RequestsFor(e)) <= 1
                /\ (current \notin NearestCells(position)
                        /\ \E c \in NearestCells(position) : WithinThreshold(position, c))
                       => RequestsFor(e) # {}
                /\ (position = Vector(10, 0, 0) /\ current = 1)
                       => RequestsFor(e) = {RequestHandover(e, 1, 0)}

C16_Witness ==
    /\ evaluated.done
    /\ enbPosition = ExampleCells
    /\ evaluated.position[0] = Vector(10, 0, 0)
    /\ evaluated.attachment[0] = 1
    /\ RequestHandover(0, 1, 0) \in handoverRequests
    /\ evaluated.position[1] = Vector(90, 0, 0)
    /\ evaluated.attachment[1] = 1
    /\ RequestsFor(1) = {}

----------------------------------------------------------------------------
(* C17: the handover check and its requests leave the attachment alone: a  *)
(* UE's attachment changes only in a HandoverSuccessCallback for that UE,  *)
(* so a UE with a request that has not succeeded is still attached to the  *)
(* source cell, also after a failure.                                      *)

SucceededFor(e) ==
    /\ delivered'.success = delivered.success + 1
    /\ lastCallback'.event = "Handover Success"
    /\ lastCallback'.imsi = e

AttachmentStep ==
    \A e \in DOMAIN attachment :
        /\ e \in DOMAIN attachment'
        /\ attachment'[e] # attachment[e] => SucceededFor(e)

RequestsNameSource ==
    \A r \in handoverRequests :
        delivered.success = 0 => attachment[r.entityId] = r.sourceCellId

----------------------------------------------------------------------------
(* C18: with statsInterval 0 an update records the throughput 0 for every  *)
(* UE, not the result of a division by zero.                               *)

C18_ZeroIntervalThroughput ==
    (params.statsInterval = 0 /\ Rows >= 1) =>
        \A u \in UeIndexes : LastThroughput(u) = DZero

----------------------------------------------------------------------------
(* C19: every PeriodicStatsUpdate appends exactly one row to every plot,   *)
(* rows appended earlier are never changed or removed, and the times of    *)
(* the rows increase strictly: row k carries the time k * statsInterval.   *)

(* b is a with n more rows at its end *)
Grown(a, b, n) ==
    /\ Len(b) = Len(a) + n
    /\ SubSeq(b, 1, Len(a)) = a

RowTimes ==
    /\ \A k \in 1..Rows : g_timePlot[k] = k * params.statsInterval
    /\ \A j, k \in 1..Rows : j < k => g_timePlot[j] < g_timePlot[k]
    /\ Len(g_avgThroughputPlot) = Rows
    /\ Len(g_avgLatencyPlot) = Rows
    /\ Len(g_handoverStartPlot) = Rows
    /\ Len(g_handoverSuccessPlot) = Rows
    /\ Len(g_handoverFailurePlot) = Rows
    /\ \A u \in DOMAIN g_ueThroughputPlot :
           /\ Len(g_ueThroughputPlot[u]) = Rows
           /\ Len(g_uePacketLossPlot[u]) = Rows
           /\ Len(g_ueJitterPlot[u]) = Rows

RowsGrown(n) ==
    /\ Grown(g_timePlot, g_timePlot', n)
    /\ Grown(g_avgThroughputPlot, g_avgThroughputPlot', n)
    /\ Grown(g_avgLatencyPlot, g_avgLatencyPlot', n)
    /\ Grown(g_handoverStartPlot, g_handoverStartPlot', n)
    /\ Grown(g_handoverSuccessPlot, g_handoverSuccessPlot', n)
    /\ Grown(g_handoverFailurePlot, g_handoverFailurePlot', n)
    /\ \A u \in DOMAIN g_ueThroughputPlot :
           /\ Grown(g_ueThroughputPlot[u], g_ueThroughputPlot'[u], n)
           /\ Grown(g_uePacketLossPlot[u], g_uePacketLossPlot'[u], n)
           /\ Grown(g_ueJitterPlot[u], g_ueJitterPlot'[u], n)

(* an update adds one row, any other step none *)
RowStep ==
    IF lastUpdate'.row # lastUpdate.row THEN RowsGrown(1) ELSE RowsGrown(0)

C19_AppendOnlyRows ==
    []RowTimes /\ [][RowStep]_vars

C19_Witness ==
    /\ Rows = SteadyTicks
    /\ g_timePlot[SteadyTicks] = SteadyTicks * params.statsInterval
    /\ lastUpdate.row = SteadyTicks
    /\ g_handoverStartPlot[1] = 1
    /\ g_handoverStartPlot[SteadyTicks] = 1
    /\ g_handoverStartPlot[2] = 0

----------------------------------------------------------------------------
(* C20: once g_flowIdToUeIndex holds an entry for a flow, the entry is     *)
(* never changed or removed for the rest of the run, whatever the later    *)
(* snapshots hold.                                                         *)

EntriesKept ==
    \A f \in DOMAIN g_flowIdToUeIndex :
        /\ f \in DOMAIN g_flowIdToUeIndex'
        /\ g_flowIdToUeIndex'[f] = g_flowIdToUeIndex[f]

C20_MappingImmutable ==
    [][EntriesKept]_vars

C20_Witness ==
    /\ Rows >= 2
    /\ \E f \in DOMAIN g_flowIdToUeIndex :
           /\ g_flowIdToUeIndex[f] = 3
           /\ stats[f] # lastUpdate.previousStats[f]
    /\ \E g \in DOMAIN stats : g \notin DOMAIN g_flowIdToUeIndex /\ g \in PortFlows

----------------------------------------------------------------------------
(* C21: after an update has processed a flow under the port test, the      *)
(* four g_previous entries of the flow hold the counters of the update's   *)
(* snapshot, also when a counter was lower than the entry stored before.   *)

AttributedFlows ==
    {f \in DOMAIN lastUpdate.seen : lastUpdate.seen[f] # NoUe}

PreviousIs(f, s) ==
    /\ f \in DOMAIN g_previousRxBytes /\ g_previousRxBytes[f] = s.rxBytes
    /\ f \in DOMAIN g_previousRxPackets /\ g_previousRxPackets[f] = s.rxPackets
    /\ f \in DOMAIN g_previousDelaySum /\ g_previousDelaySum[f] = s.delaySum
    /\ f \in DOMAIN g_previousJitterSum /\ g_previousJitterSum[f] = s.jitterSum

C21_PreviousIsSnapshot ==
    Rows >= 1 => \A f \in AttributedFlows : PreviousIs(f, stats[f])

C21_Witness ==
    /\ Rows >= 2
    /\ \E f \in AttributedFlows \cap DecreasedFlows :
           /\ lastUpdate.previousDelaySum[f] > stats[f].delaySum
           /\ PreviousIs(f, stats[f])
    /\ \E g \in AttributedFlows \ DecreasedFlows :
           /\ g \in DOMAIN lastUpdate.previousRxBytes
           /\ lastUpdate.previousRxBytes[g] < stats[g].rxBytes
           /\ PreviousIs(g, stats[g])

----------------------------------------------------------------------------
(* C22: after any update every UDP flow of the snapshot to a port in the   *)
(* range has an entry in g_flowIdToUeIndex, also a flow that appeared      *)
(* after time 0.                                                           *)

C22_MappedAtFirstObservation ==
    Rows >= 1 => \A f \in PortFlows : f \in DOMAIN g_flowIdToUeIndex

----------------------------------------------------------------------------
(* C23: the g_previous maps only grow: a flow that has an entry keeps one  *)
(* for the rest of the run, also across updates that skip the flow.        *)

PreviousKept ==
    /\ DOMAIN g_previousRxBytes \subseteq DOMAIN g_previousRxBytes'
    /\ DOMAIN g_previousRxPackets \subseteq DOMAIN g_previousRxPackets'
    /\ DOMAIN g_previousDelaySum \subseteq DOMAIN g_previousDelaySum'
    /\ DOMAIN g_previousJitterSum \subseteq DOMAIN g_previousJitterSum'

C23_PreviousOnlyGrows ==
    [][PreviousKept]_vars

(* a flow entered at time 0 that every update skips, beside one that an    *)
(* update entered                                                          *)
C23_Witness ==
    /\ Rows >= 2
    /\ \E f \in DOMAIN g_previousRxBytes :
           /\ f \in DOMAIN lastUpdate.seen
           /\ lastUpdate.seen[f] = NoUe
           /\ f \in DOMAIN g_previousRxPackets
           /\ f \in DOMAIN g_previousDelaySum
           /\ f \in DOMAIN g_previousJitterSum
    /\ \E g \in DOMAIN g_previousRxBytes : g \notin DOMAIN g_flowIdToUeIndex

----------------------------------------------------------------------------
(* C24: the nearest-eNodeB search selects a cell at the least distance,    *)
(* and of several cells at the least distance the one of lowest index;     *)
(* when all cells are at one position every UE selects cell 0.             *)

LowestNearest(position) ==
    SetMin(NearestCells(position))

AllCellsTogether ==
    \A c, d \in DOMAIN enbPosition : enbPosition[c] = enbPosition[d]

C24_LowestIndexedNearest ==
    \A e \in DOMAIN attachment :
        /\ attachment[e] = LowestNearest(uePosition[e])
        /\ AllCellsTogether => attachment[e] = 0

(* one UE between cells 2 and 3 of the 4-eNodeB placement, the other at    *)
(* the centre, at the same distance from all four                          *)
C24_Witness ==
    /\ enbPosition = ConfigureEnbMobility(4, areaSize)
    /\ DOMAIN attachment = DOMAIN uePosition
    /\ \E e \in DOMAIN attachment :
           /\ NearestCells(uePosition[e]) = {2, 3}
           /\ attachment[e] = 2
    /\ \E e \in DOMAIN attachment :
           /\ NearestCells(uePosition[e]) = {0, 1, 2, 3}
           /\ attachment[e] = 0

(* the placement for a number of eNodeBs other than 2 and 4 *)
C24_FallbackWitness ==
    /\ Cardinality(DOMAIN enbPosition) = 3
    /\ AllCellsTogether
    /\ DOMAIN attachment = DOMAIN uePosition
    /\ \A e \in DOMAIN attachment : attachment[e] = 0

----------------------------------------------------------------------------
(* C25: callbacks and updates run one at a time, each to its end: under    *)
(* every ordering of them, for each of start, success and failure the      *)
(* buckets written so far plus the interval counter add up to the          *)
(* callbacks of that kind delivered, so none is lost or counted twice      *)
(* between the push and the reset of an update.                            *)

Accounted(plot, count, callbacks) ==
    SumSeq(plot) + count = callbacks

AllAccounted ==
    /\ Accounted(g_handoverStartPlot, g_handoverStartCount, delivered.start)
    /\ Accounted(g_handoverSuccessPlot, g_handoverSuccessCount, delivered.success)
    /\ Accounted(g_handoverFailurePlot, g_handoverFailureCount, delivered.failure)

(* a step that delivers a callback writes no bucket and adds one to the    *)
(* counters; a step that writes buckets delivers no callback               *)
OneAtATime ==
    IF delivered' # delivered
    THEN /\ UNCHANGED handoverPlots
         /\ (g_handoverStartCount' + g_handoverSuccessCount' + g_handoverFailureCount')
               = (g_handoverStartCount + g_handoverSuccessCount + g_handoverFailureCount) + 1
         /\ (delivered'.start + delivered'.success + delivered'.failure)
               = (delivered.start + delivered.success + delivered.failure) + 1
    ELSE handoverPlots' # handoverPlots =>
             /\ g_handoverStartCount' = 0
             /\ g_handoverSuccessCount' = 0
             /\ g_handoverFailureCount' = 0

C25_NoCallbackLost ==
    []AllAccounted /\ [][OneAtATime]_vars

C25_Witness ==
    /\ Rows >= 2
    /\ SumSeq(g_handoverSuccessPlot) = 1
    /\ g_handoverFailureCount = 1
    /\ delivered = [start |-> 0, success |-> 1, failure |-> 1]

----------------------------------------------------------------------------
(* C26, as stated: for statsInterval > 0 every run reaches an update after *)
(* which no update is pending, no update is ever scheduled past the stop   *)
(* time, and at most simTime / statsInterval (rounded down) rows are       *)
(* written.                                                                *)

RowsBounded ==
    Rows <= params.simTime \div params.statsInterval

C26_NoUpdatePending ==
    /\ <>[](statsAt = NoEvent)
    /\ [](statsAt # NoEvent => statsAt <= params.simTime)
    /\ []RowsBounded

(* C26, amended: every run reaches an update after which no update runs;   *)
(* one may stay scheduled and is never run, at the stop time itself or, as *)
(* the first one, past it; an update schedules the next one only for a     *)
(* time up to the stop time, and the rows are bounded as stated.           *)

C26_UpdatesEnd ==
    /\ <>[](~StatsDue)
    /\ [](Rows >= 1 /\ statsAt # NoEvent => statsAt <= params.simTime)
    /\ [](\A k \in 1..Rows : g_timePlot[k] <= params.simTime)
    /\ []RowsBounded

(* after the last update of a run the next one is scheduled for the stop   *)
(* time and never runs                                                     *)
C26_Witness ==
    /\ Rows >= 2
    /\ statsAt = params.simTime
    /\ ~StatsDue
    /\ ~mappingPending

----------------------------------------------------------------------------
(* C27: after every update the time vector, the two average series, the    *)
(* three series of every UE and the three handover series have one         *)
(* length, the number of updates run so far, so index i is the same        *)
(* update in all of them.                                                  *)

UpdatesRun ==
    g_currentTime \div params.statsInterval

C27_SeriesAligned ==
    /\ g_currentTime = UpdatesRun * params.statsInterval
    /\ Len(g_timePlot) = UpdatesRun
    /\ Len(g_avgLatencyPlot) = UpdatesRun
    /\ Len(g_avgThroughputPlot) = UpdatesRun
    /\ Len(g_handoverStartPlot) = UpdatesRun
    /\ Len(g_handoverSuccessPlot) = UpdatesRun
    /\ Len(g_handoverFailurePlot) = UpdatesRun
    /\ DOMAIN g_ueThroughputPlot = UeIndexes
    /\ DOMAIN g_uePacketLossPlot = UeIndexes
    /\ DOMAIN g_ueJitterPlot = UeIndexes
    /\ \A u \in UeIndexes :
           /\ Len(g_ueThroughputPlot[u]) = UpdatesRun
           /\ Len(g_uePacketLossPlot[u]) = UpdatesRun
           /\ Len(g_ueJitterPlot[u]) = UpdatesRun

C27_Witness ==
    /\ UpdatesRun = 5
    /\ g_handoverFailurePlot[5] = 1
    /\ g_handoverSuccessPlot[2] = 1
    /\ Len(g_ueJitterPlot[0]) = 5
    /\ DEq(g_ueThroughputPlot[3][5], DMake(PInt(SteadyBytes * 8), <<1000>>))

----------------------------------------------------------------------------
(* C28: for a flow that every update since its first one has attributed    *)
(* and whose receivedBytes never went down, the deltaBytes of all updates  *)
(* so far add up to the receivedBytes of the last snapshot.                *)
(* lastUpdate.totalDeltaBytes is the sum of the deltaBytes computed for a  *)
(* flow so far, lastUpdate.nonDecreasing the flows whose receivedBytes     *)
(* never went down from one snapshot to the next.                          *)

C28_DeltasAddUp ==
    Rows >= 1 =>
        \A f \in lastUpdate.nonDecreasing :
            lastUpdate.totalDeltaBytes[f] = PInt(stats[f].rxBytes)

C28_Witness ==
    /\ Rows >= 2
    /\ \E f \in lastUpdate.nonDecreasing :
           /\ f \in DOMAIN lastUpdate.previousRxBytes
           /\ lastUpdate.previousRxBytes[f] > 0
           /\ lastUpdate.previousRxBytes[f] < stats[f].rxBytes
           /\ lastUpdate.totalDeltaBytes[f] = PInt(stats[f].rxBytes)
    /\ \E g \in DOMAIN lastUpdate.deltas : g \notin lastUpdate.nonDecreasing

----------------------------------------------------------------------------
(* C29: an update ignores a flow whose protocol is not UDP, also when its  *)
(* destination port is the port of a UE: the flow is attributed to no UE,  *)
(* no delta is computed for it, its entries of the g_previous maps are     *)
(* what they were before the update, and the UE of that port, having no    *)
(* UDP flow, gets a row of zeros.                                          *)

NonUdpPortFlows ==
    {f \in DOMAIN stats :
        /\ FindFlow[f].protocol # UDP
        /\ InPortRange(FindFlow[f].destinationPort, params.numUe)}

SameEntry(f, before, after) ==
    /\ (f \in DOMAIN after) = (f \in DOMAIN before)
    /\ f \in DOMAIN after => after[f] = before[f]

PreviousUntouched(f) ==
    /\ SameEntry(f, lastUpdate.previousRxBytes, g_previousRxBytes)
    /\ SameEntry(f, lastUpdate.previousRxPackets, g_previousRxPackets)
    /\ SameEntry(f, lastUpdate.previousDelaySum, g_previousDelaySum)
    /\ SameEntry(f, lastUpdate.previousJitterSum, g_previousJitterSum)

C29_NonUdpIgnored ==
    Rows >= 1 =>
        \A f \in NonUdpPortFlows :
            LET u == FindFlow[f].destinationPort - basePort
            IN  /\ lastUpdate.seen[f] = NoUe
                /\ f \notin DOMAIN lastUpdate.deltas
                /\ PreviousUntouched(f)
                /\ FlowsOfUe(u) = {} =>
                       /\ LastThroughput(u) = DZero
                       /\ LastPacketLoss(u) = DZero
                       /\ LastJitter(u) = DZero

(* a TCP flow to the port of a UE with counters above its g_previous       *)
(* entries, beside a UDP flow that the update accounted                    *)
C29_Witness ==
    /\ Rows >= 1
    /\ \E f \in NonUdpPortFlows :
           /\ stats[f].rxBytes > 0
           /\ stats[f].rxBytes # MapGet(g_previousRxBytes, f, 0)
    /\ \E g \in PortFlows : LastThroughput(lastUpdate.seen[g]) # DZero

----------------------------------------------------------------------------
(* C30: a UE that has no UDP flow to its port in the snapshot of an update *)
(* gets throughput 0, packet loss 0 and jitter 0 in the row of that        *)
(* update: the values of a UE start from zero in every update.             *)

UesWithoutFlow ==
    {u \in UeIndexes : FlowsOfUe(u) = {}}

C30_NoFlowNoValue ==
    Rows >= 1 =>
        \A u \in UesWithoutFlow :
            /\ LastThroughput(u) = DZero
            /\ LastPacketLoss(u) = DZero
            /\ LastJitter(u) = DZero

(* the second update leaves a UE without flow at zero while another UE     *)
(* has a packet loss above zero in both rows                               *)
C30_Witness ==
    /\ Rows >= 2
    /\ UesWithoutFlow # {}
    /\ \E v \in UeIndexes \ UesWithoutFlow :
           /\ LastPacketLoss(v) # DZero
           /\ g_uePacketLossPlot[v][Rows - 1] # DZero
    /\ \A u \in UesWithoutFlow :
           /\ LastPacketLoss(u) = DZero
           /\ g_uePacketLossPlot[u][Rows - 1] = DZero

====
